---- MODULE Spec2Model ----
(***************************************************************************)
(* JailedStableVec (src/src/jailed.rs): a guard around an exclusive        *)
(* reference to a StableVec, handing out Index<'a> tokens that carry the   *)
(* slot number and, at the type level only, the lifetime 'a of the borrow  *)
(* the guard was made from.                                                *)
(*                                                                         *)
(* The StableVec itself (super::StableVec) is not part of jailed.rs; its   *)
(* operations (the SV... operators) are modelled from the specification.   *)
(*                                                                         *)
(* Rust's Option<T> and a panic are encoded as integers: None is 0,        *)
(* Some(v) is v (values are 1..MaxVal), a panic is -1.  Slot numbers are   *)
(* 0-based as in the code; slot i is data[i + 1].                          *)
(***************************************************************************)
EXTENDS Integers, Sequences, FiniteSets

\* ----------------------------------------------------------------- bounds
MaxVal == 2         \* element values are 1..MaxVal
MaxSlots == 3       \* slots allocated, in a program with one StableVec
MaxSlotsTwo == 2    \* slots allocated over both, in a program with two
MaxGuards == 2      \* guards the caller makes, numbered 1, 2, ... as made

Vecs == {1, 2}      \* sv1 and sv2 of the doc tests
Values == 1..MaxVal

None == 0
Panic == 0 - 1
Empty == 0

VARIABLES
    vecs,     \* the StableVecs the program makes: {1} (the first doc test), or
              \* {1, 2} (the should_panic doc test)
    sv,       \* sv[c]: the StableVec c, [data: Seq(Values \cup {Empty}), used: Nat]
    guard,    \* guard[c]: 0, or the number of the JailedStableVec open over c
    gen,      \* how many guards have been made so far
    held,     \* Index values the caller still holds: [tok: Index, val: the value
              \* pushed, or last written through the minting guard's index_mut]
    pins,     \* <<a, b>>: the borrow of a must outlive the borrow of b
    gone,     \* gone[c]: the removals asked of the open guard, [tok, by]: the
              \* first one asked for Index tok was by "remove", or by "pop" (tok:
              \* the guard's Index of the popped slot); by "miss" while remove
              \* was only asked with tok when it named no allocated slot
    net,      \* net[c]: pushes minus successful removals through the open guard
    base,     \* base[c]: num_elements of c when the open guard was made
    last,     \* the last call: [op, c, tok, arg, res]
    pos       \* progress through the module doc test, or -1

vars == <<vecs, sv, guard, gen, held, pins, gone, net, base, last, pos>>

\* ------------------------------------------------ StableVec (from the spec)
NewSV == [data |-> <<>>, used |-> 0]

\* exists(index): the slot is allocated and occupied
SVExists(s, i) == i >= 0 /\ i < Len(s.data) /\ s.data[i + 1] # Empty

\* push(value) -> slot
SVPush(s, v) ==
    [sv |-> [data |-> Append(s.data, v), used |-> s.used + 1],
     idx |-> Len(s.data)]

\* what remove(slot) may answer for a slot the StableVec never allocated:
\* left open (a tombstoned slot gives None, an unallocated one is not spoken
\* of), so either None or a panic
Unallocated == {None, Panic}

\* slot i was allocated: it is occupied or a tombstone
SVAllocated(s, i) == i >= 0 /\ i < Len(s.data)

\* (mutant of SVRemove) counts a removal even when the slot holds nothing
SVRemoveAlwaysCounts(s, i, o) ==
    IF SVExists(s, i)
        THEN [sv |-> [data |-> [s.data EXCEPT ![i + 1] = Empty],
                      used |-> s.used - 1],
              res |-> s.data[i + 1]]
        ELSE [sv |-> [s EXCEPT !.used = s.used - 1],
              res |-> IF SVAllocated(s, i) THEN None ELSE o]

\* remove(slot) -> Option<T>: tombstones an occupied slot and returns its
\* value, returns None for a slot already empty; o \in Unallocated is the
\* answer for a slot never allocated
SVRemove(s, i, o) ==
    IF SVExists(s, i)
        THEN [sv |-> [data |-> [s.data EXCEPT ![i + 1] = Empty],
                      used |-> s.used - 1],
              res |-> s.data[i + 1]]
        ELSE [sv |-> s, res |-> IF SVAllocated(s, i) THEN None ELSE o]

\* the trailing occupied slot, -1 when there is none
SVLastIndex(s) ==
    LET occ == {i \in 0..(Len(s.data) - 1) : s.data[i + 1] # Empty}
    IN  IF occ = {} THEN 0 - 1
        ELSE CHOOSE i \in occ : \A j \in occ : j <= i

\* pop() -> Option<T>: removes the trailing occupied slot the way remove
\* does, None when no slot is occupied
SVPop(s) ==
    IF SVLastIndex(s) < 0 THEN [sv |-> s, res |-> None]
    ELSE SVRemove(s, SVLastIndex(s), None)

\* index(slot): the element, or a panic when the slot is not occupied
SVIndex(s, i) == IF SVExists(s, i) THEN s.data[i + 1] ELSE Panic

\* index_mut(slot) followed by a write of v through the reference
SVIndexMutWrite(s, i, v) ==
    IF SVExists(s, i)
        THEN [sv |-> [s EXCEPT !.data[i + 1] = v], res |-> s.data[i + 1]]
        ELSE [sv |-> s, res |-> Panic]

SVNumElements(s) == s.used

SVIsCompact(s) == s.used = Len(s.data)

\* the occupied values in slot order
RECURSIVE Survivors(_)
Survivors(d) ==
    IF d = <<>> THEN <<>>
    ELSE IF Head(d) = Empty THEN Survivors(Tail(d))
         ELSE <<Head(d)>> \o Survivors(Tail(d))

\* (mutant of SVMakeCompact) cuts the slots down to num_elements of them
\* without moving a survivor into a tombstone
SVMakeCompactTruncate(s) ==
    [data |-> SubSeq(s.data, 1, s.used), used |-> s.used]

\* compact(): drops the tombstones, survivors keep their order
SVMakeCompact(s) ==
    LET d == Survivors(s.data) IN [data |-> d, used |-> Len(d)]

\* sequences over Values of length n holding the same multiset as d
Permutations(d) ==
    {p \in [1..Len(d) -> Values] :
        \A v \in Values :
            Cardinality({i \in 1..Len(d) : p[i] = v})
                = Cardinality({i \in 1..Len(d) : d[i] = v})}

\* reordering_compact(): drops the tombstones, survivors in any order
SVReorderMakeCompact(s) ==
    {[data |-> p, used |-> Len(p)] : p \in Permutations(Survivors(s.data))}

\* into_underlying_sequence: drains the container
SVIntoVec(s) == Survivors(s.data)

\* --------------------------------------------------- jailed.rs: the wrapper
\* struct Index<'a> { idx, _marker }: the slot number, and the lifetime 'a of
\* the borrow it was made under, kept here as the StableVec c that is borrowed
\* and the number g of the guard that made it.
NoTok == [idx |-> 0 - 1, c |-> 0, g |-> 0]

\* (mutant of MkIndex) the Index names the slot after the pushed one
MkIndexOffByOne(idx, c, g) == [idx |-> idx + 1, c |-> c, g |-> g]

\* JailedStableVec::index (private)
MkIndex(idx, c, g) == [idx |-> idx, c |-> c, g |-> g]

\* JailedStableVec::push
JPush(s, v, c, g) ==
    LET r == SVPush(s, v) IN [sv |-> r.sv, ret |-> MkIndex(r.idx, c, g)]

\* (mutant of JPop) removes slot 0 instead of the trailing occupied slot
JPopFront(s) == SVRemove(s, 0, None)

\* JailedStableVec::pop
JPop(s) == SVPop(s)

\* (mutant of JRemove) removes the slot after the one the Index names
JRemoveNext(s, tok, o) == SVRemove(s, tok.idx + 1, o)

\* JailedStableVec::remove
JRemove(s, tok, o) == SVRemove(s, tok.idx, o)

\* JailedStableVec::is_compact
\* (mutant of JIsCompact) answers whether the StableVec has no element
JIsCompactNoElements(s) == SVNumElements(s) = 0

JIsCompact(s) == SVIsCompact(s)

\* (mutant of JNumElements) counts the slots, tombstones included
JNumElementsAsLen(s) == Len(s.data)

\* JailedStableVec::num_elements
JNumElements(s) == SVNumElements(s)

\* (mutant of JIndex) reads the slot after the one the Index names
JIndexNext(s, tok) == SVIndex(s, tok.idx + 1)

\* impl Index<Index<'a>>: index
JIndex(s, tok) == SVIndex(s, tok.idx)

\* impl IndexMut<Index<'a>>: index_mut, and the caller's write through it
\* (mutant of JIndexMutWrite) writes to the slot after the one the Index names
JIndexMutWriteNext(s, tok, v) == SVIndexMutWrite(s, tok.idx + 1, v)

JIndexMutWrite(s, tok, v) == SVIndexMutWrite(s, tok.idx, v)

\* ------------------------------------------- what the borrow checker allows
Toks == {h.tok : h \in held}
ToksOf(c) == {t \in Toks : t.c = c}

\* (mutant of Borrowed) Index without its lifetime: only the guard borrows
BorrowedGuardOnly(c) == guard[c] # 0

\* jail(&'a mut self) -> JailedStableVec<'a, T>, and Index<'a>: StableVec c is
\* mutably borrowed for 'a, which lasts while the guard or any Index<'a> lives.
Borrowed(c) == guard[c] # 0 \/ ToksOf(c) # {}

\* index(&self, Index<'a>): JailedStableVec and Index are covariant in 'a, so a
\* shared call takes any Index the caller holds.
SharedOk(c, t) == guard[c] # 0 /\ t \in Toks

\* remove(&mut self, Index<'a>), index_mut(&mut self, Index<'a>): behind &mut
\* the guard's 'a is fixed, so the Index's lifetime must outlive it.
MutOk(c, t) == guard[c] # 0 /\ t \in Toks

\* the outlives constraint a &mut call with a token of another borrow adds
Pin(c, t) == IF t.c = c THEN {} ELSE {<<t.c, c>>}

\* the constraints that remain once the borrows of the StableVecs in S ended
Unpin(P, S) == {p \in P : p[1] \notin S /\ p[2] \notin S}

\* the borrows of the StableVecs in S may end together: none has to outlive a
\* borrow that goes on
MayEnd(S) == \A p \in pins : p[1] \in S => p[2] \in S

Halted == last.res = Panic

Call(op, c, tok, arg, res) ==
    [op |-> op, c |-> c, tok |-> tok, arg |-> arg, res |-> res]

\* the program has made its StableVecs, the set V
Start(V) ==
    /\ vecs = V
    /\ sv = [c \in Vecs |-> NewSV]
    /\ guard = [c \in Vecs |-> 0]
    /\ gen = 0
    /\ held = {}
    /\ pins = {}
    /\ gone = [c \in Vecs |-> {}]
    /\ net = [c \in Vecs |-> 0]
    /\ base = [c \in Vecs |-> 0]
    /\ last = Call("new", 0, NoTok, 0, 0)
    /\ pos = 0

\* let mut sv = StableVec::new();
Init == Start({1})

\* let mut sv1 = StableVec::new(); let mut sv2 = StableVec::new();
InitTwo == Start({1, 2})

\* ------------------------------------------------------ the module doc test
\* One round of the doc test, on sv1: jail; push(1); push(2); jailed[idx1];
\* jailed[idx2]; remove(idx1); the block ends (the guard, then the indexes, go
\* out of scope); make_compact.  Step k of a round expects:
RoundLen == 9

ValOf(t) == IF \E h \in held : h.tok = t
                THEN (CHOOSE h \in held : h.tok = t).val ELSE 0

Expected(k, call) ==
    /\ call.c = 1
    /\ \/ k = 0 /\ call.op = "jail"
       \/ k = 1 /\ call.op = "push" /\ call.arg = 1
       \/ k = 2 /\ call.op = "push" /\ call.arg = 2
       \/ k = 3 /\ call.op = "index" /\ call.tok.c = 1 /\ ValOf(call.tok) = 1
       \/ k = 4 /\ call.op = "index" /\ call.tok.c = 1 /\ ValOf(call.tok) = 2
       \/ k = 5 /\ call.op = "remove" /\ call.tok.c = 1 /\ ValOf(call.tok) = 1
       \/ k = 6 /\ call.op = "close"
       \/ k = 7 /\ call.op = "forget"
       \/ k = 8 /\ call.op = "make_compact"

Advance(call) ==
    IF pos >= 0 /\ pos < 2 * RoundLen /\ Expected(pos % RoundLen, call)
        THEN pos + 1 ELSE 0 - 1

Did(call) == last' = call /\ pos' = Advance(call) /\ vecs' = vecs

Slots == Len(sv[1].data) + Len(sv[2].data)

\* the removals G, and one more asked for Index t
Asked(G, t, by) ==
    IF \E r \in G : r.tok = t /\ r.by # "miss" THEN G
    ELSE {r \in G : r.tok # t} \cup {[tok |-> t, by |-> by]}

\* --------------------------------------------------------------- the calls
\* (mutant of Jail) jail() compacts the StableVec before wrapping it
JailCompacts(c) ==
    /\ ~Halted
    /\ ~Borrowed(c)
    /\ gen < MaxGuards
    /\ gen' = gen + 1
    /\ guard' = [guard EXCEPT ![c] = gen + 1]
    /\ sv' = [sv EXCEPT ![c] = SVMakeCompact(sv[c])]
    /\ base' = [base EXCEPT ![c] = sv[c].used]
    /\ Did(Call("jail", c, NoTok, 0, 0))
    /\ UNCHANGED <<held, pins, gone, net>>

\* StableVec::jail
Jail(c) ==
    /\ ~Halted
    /\ ~Borrowed(c)
    /\ gen < MaxGuards
    /\ gen' = gen + 1
    /\ guard' = [guard EXCEPT ![c] = gen + 1]
    /\ base' = [base EXCEPT ![c] = sv[c].used]
    /\ Did(Call("jail", c, NoTok, 0, 0))
    /\ UNCHANGED <<sv, held, pins, gone, net>>

\* the JailedStableVec goes out of scope (it has no Drop); the borrow goes on
\* while an Index made under it is held
Close(c) ==
    /\ ~Halted
    /\ guard[c] # 0
    /\ guard' = [guard EXCEPT ![c] = 0]
    /\ pins' = IF ToksOf(c) = {} THEN Unpin(pins, {c}) ELSE pins
    /\ gone' = [gone EXCEPT ![c] = {}]
    /\ net' = [net EXCEPT ![c] = 0]
    /\ base' = [base EXCEPT ![c] = 0]
    /\ Did(Call("close", c, NoTok, 0, 0))
    /\ UNCHANGED <<sv, gen, held>>

\* the Index values made under the borrows of the StableVecs in S go out of
\* scope, which ends those borrows
Forget(S) ==
    /\ ~Halted
    /\ S # {}
    /\ \A c \in S : guard[c] = 0 /\ ToksOf(c) # {}
    /\ MayEnd(S)
    /\ held' = {h \in held : h.tok.c \notin S}
    /\ pins' = Unpin(pins, S)
    /\ Did(Call("forget", IF \E c \in vecs : S = {c}
                              THEN CHOOSE c \in vecs : S = {c} ELSE 0,
                NoTok, 0, 0))
    /\ UNCHANGED <<sv, guard, gen, gone, net, base>>

\* jailed.push(v)
Push(c, v) ==
    /\ ~Halted
    /\ guard[c] # 0
    /\ Slots < (IF vecs = {1} THEN MaxSlots ELSE MaxSlotsTwo)
    /\ LET r == JPush(sv[c], v, c, guard[c]) IN
        /\ sv' = [sv EXCEPT ![c] = r.sv]
        /\ held' = held \cup {[tok |-> r.ret, val |-> v]}
        /\ Did(Call("push", c, r.ret, v, 0))
    /\ net' = [net EXCEPT ![c] = net[c] + 1]
    /\ UNCHANGED <<guard, gen, pins, gone, base>>

\* jailed.pop()
Pop(c) ==
    /\ ~Halted
    /\ guard[c] # 0
    /\ LET r == JPop(sv[c]) IN
        /\ sv' = [sv EXCEPT ![c] = r.sv]
        /\ net' = [net EXCEPT ![c] = IF r.res = None THEN net[c] ELSE net[c] - 1]
        /\ gone' = [gone EXCEPT ![c] =
                        IF r.res = None THEN gone[c]
                        ELSE Asked(gone[c],
                                   MkIndex(SVLastIndex(sv[c]), c, guard[c]), "pop")]
        /\ Did(Call("pop", c, NoTok, 0, r.res))
    /\ UNCHANGED <<guard, gen, held, pins, base>>

\* jailed.remove(t)
Remove(c, t) ==
    /\ ~Halted
    /\ MutOk(c, t)
    /\ \E o \in Unallocated :
        LET r == JRemove(sv[c], t, o) IN
        /\ sv' = [sv EXCEPT ![c] = r.sv]
        /\ net' = [net EXCEPT ![c] =
                        IF r.res \in Values THEN net[c] - 1 ELSE net[c]]
        /\ Did(Call("remove", c, t, 0, r.res))
    /\ gone' = [gone EXCEPT ![c] =
                Asked(gone[c], t,
                      IF SVAllocated(sv[c], t.idx) THEN "remove" ELSE "miss")]
    /\ pins' = pins \cup Pin(c, t)
    /\ UNCHANGED <<guard, gen, held, base>>

\* jailed[t]
Index(c, t) ==
    /\ ~Halted
    /\ SharedOk(c, t)
    /\ Did(Call("index", c, t, 0, JIndex(sv[c], t)))
    /\ UNCHANGED <<sv, guard, gen, held, pins, gone, net, base>>

\* jailed[t] = v
IndexMut(c, t, v) ==
    /\ ~Halted
    /\ MutOk(c, t)
    /\ LET r == JIndexMutWrite(sv[c], t, v) IN
        /\ sv' = [sv EXCEPT ![c] = r.sv]
        /\ held' = IF r.res = Panic THEN held
                    ELSE {IF h.tok = MkIndex(t.idx, c, guard[c])
                            THEN [h EXCEPT !.val = v] ELSE h : h \in held}
        /\ Did(Call("index_mut", c, t, v, r.res))
    /\ pins' = pins \cup Pin(c, t)
    /\ UNCHANGED <<guard, gen, gone, net, base>>

\* jailed.is_compact()
IsCompact(c) ==
    /\ ~Halted
    /\ guard[c] # 0
    /\ Did(Call("is_compact", c, NoTok, 0, IF JIsCompact(sv[c]) THEN 1 ELSE 0))
    /\ UNCHANGED <<sv, guard, gen, held, pins, gone, net, base>>

\* jailed.num_elements()
NumElements(c) ==
    /\ ~Halted
    /\ guard[c] # 0
    /\ Did(Call("num_elements", c, NoTok, 0, JNumElements(sv[c])))
    /\ UNCHANGED <<sv, guard, gen, held, pins, gone, net, base>>

\* sv.make_compact(): needs &mut sv
MakeCompact(c) ==
    /\ ~Halted
    /\ ~Borrowed(c)
    /\ sv' = [sv EXCEPT ![c] = SVMakeCompact(sv[c])]
    /\ Did(Call("make_compact", c, NoTok, 0, 0))
    /\ UNCHANGED <<guard, gen, held, pins, gone, net, base>>

\* sv.reordering_make_compact(): needs &mut sv
ReorderMakeCompact(c) ==
    /\ ~Halted
    /\ ~Borrowed(c)
    /\ \E s \in SVReorderMakeCompact(sv[c]) : sv' = [sv EXCEPT ![c] = s]
    /\ Did(Call("reordering_make_compact", c, NoTok, 0, 0))
    /\ UNCHANGED <<guard, gen, held, pins, gone, net, base>>

\* a panic ends the program: no call is made once Halted
Next ==
    \/ \E c \in vecs : Jail(c)
    \/ \E c \in vecs : Close(c)
    \/ \E S \in SUBSET vecs : Forget(S)
    \/ \E c \in vecs, v \in Values : Push(c, v)
    \/ \E c \in vecs : Pop(c)
    \/ \E c \in vecs, t \in Toks : Remove(c, t)
    \/ \E c \in vecs, t \in Toks : Index(c, t)
    \/ \E c \in vecs, t \in Toks, v \in Values : IndexMut(c, t, v)
    \/ \E c \in vecs : IsCompact(c)
    \/ \E c \in vecs : NumElements(c)
    \/ \E c \in vecs : MakeCompact(c)
    \/ \E c \in vecs : ReorderMakeCompact(c)

\* a program with one StableVec
Spec == Init /\ [][Next]_vars

\* a program with two StableVecs
SpecTwo == InitTwo /\ [][Next]_vars

TypeOK ==
    /\ \A c \in Vecs : sv[c].used = Len(Survivors(sv[c].data))
    /\ \A c \in Vecs : guard[c] \in 0..gen

\* ---------------------------------------------------------------- claims
TokOps == {"remove", "index", "index_mut"}
CompactOps == {"make_compact", "reordering_make_compact"}
GuardMutOps == {"push", "pop", "remove", "index_mut"}

\* t was made by the guard now open over c
Own(c, t) == guard[c] # 0 /\ t.c = c /\ t.g = guard[c]

\* the slots of c a removal was asked for through the open guard
GoneSlots(c) == {r.tok.idx : r \in {q \in gone[c] : q.by # "miss"}}

\* C1: through an open guard, every Index the guard returned from push(v)
\* resolves by jailed[idx] to v (or to what was since written to it through
\* the guard's index_mut; never under push, remove and pop alone) as long as
\* no removal was asked for its slot.
C1_TokenResolves ==
    \A c \in Vecs : \A h \in held :
        (Own(c, h.tok) /\ h.tok.idx \notin GoneSlots(c))
            => JIndex(sv[c], h.tok) = h.val

\* C1 witness: a lookup returned the value of an Index of the open guard
\* whose slot is not the last one, after a removal through that guard.
C1_Witness ==
    /\ last.op = "index" /\ Own(last.c, last.tok)
    /\ gone[last.c] # {} /\ last.tok.idx \notin GoneSlots(last.c)
    /\ last.res = ValOf(last.tok) /\ last.res \in Values
    /\ Len(sv[last.c].data) > last.tok.idx + 1

\* C2: while StableVec c is borrowed (its guard is open, or an Index made
\* under the guard is still held), no step is a compaction of c, and c changes
\* only by a call through its open guard.
C2_NoCompactionWhileBorrowed ==
    [][\A c \in Vecs :
        (guard[c] # 0 \/ ToksOf(c) # {}) =>
            /\ ~(last' # last /\ last'.op \in CompactOps /\ last'.c = c)
            /\ sv'[c] # sv[c] =>
                (guard[c] # 0 /\ last'.c = c /\ last'.op \in GuardMutOps)]_vars

\* C2 witness: the first round of the doc test is over: sv1 was compacted
\* once its guard was closed and the guard's Indexes were gone.
C2_Witness ==
    /\ pos = RoundLen /\ last.op \in CompactOps
    /\ guard[last.c] = 0 /\ ToksOf(last.c) = {}
    /\ sv[last.c].used > 0

\* C3 as claimed: remove, index and index_mut take an Index only through the
\* guard that made it.
C3_Original ==
    last.op \in TokOps => Own(last.c, last.tok)

\* C3 as amended: an Index made over StableVec c is taken by no other guard
\* over c than the one that made it (a guard over another StableVec does take
\* it).
C3_SameVecSameGuard ==
    (last.op \in TokOps /\ last.tok.c = last.c) => last.tok.g = guard[last.c]

\* C3 witness: with both guards open and an Index of each held, a guard took
\* an Index it made itself.
C3_Witness ==
    /\ last.op \in TokOps /\ Own(last.c, last.tok)
    /\ \E t \in Toks : t.c # last.c /\ guard[t.c] = t.g

\* C4 as claimed: an Index is taken by no guard once the guard that made it
\* is closed.
C4_Original ==
    last.op \in TokOps => guard[last.tok.c] = last.tok.g

\* C4 as amended: while an Index is held, the only guard that can be open
\* over the StableVec it was made over is the guard that made it: a later
\* guard over that StableVec (and a compaction of it, see C2) comes only once
\* the Index is gone, so no call of a later guard over it is given the Index.
\* (A guard over another StableVec does take it after its guard is closed.)
C4_NoTokenOutlivesBorrow ==
    /\ \A t \in Toks : guard[t.c] \in {0, t.g}
    /\ last.op = "jail" => \A t \in ToksOf(last.c) : t.g = guard[last.c]
    /\ (last.op \in TokOps /\ last.tok.c = last.c) => Own(last.c, last.tok)

\* C4 witness: the second round of the doc test begins: after a guard over
\* sv1 made Indexes and was closed, and sv1 was compacted, a later guard over
\* sv1 is open, and no Index of the first guard is left.
C4_Witness ==
    /\ pos = RoundLen + 1 /\ last.op = "jail"
    /\ guard[1] = 2 /\ ToksOf(1) = {}

\* C5: jailed[idx] and jailed[idx] = v, with an Index of the open guard whose
\* slot a removal (remove, or pop of the trailing slot) was asked for, panic,
\* whatever was pushed since; and jailed[idx] with an Index of the open guard
\* never returns anything but the value the Index stands for.
C5_StaleLookupPanics ==
    /\ (last.op \in {"index", "index_mut"} /\ Own(last.c, last.tok)
            /\ last.tok.idx \in GoneSlots(last.c))
        => last.res = Panic
    /\ (last.op = "index" /\ Own(last.c, last.tok))
        => last.res \in {Panic, ValOf(last.tok)}

\* C5 witness: a lookup with a removed Index panicked although a slot pushed
\* after it is occupied.
C5_Witness ==
    /\ last.op = "index" /\ Own(last.c, last.tok)
    /\ last.tok.idx \in GoneSlots(last.c)
    /\ last.res = Panic
    /\ \E i \in (last.tok.idx + 1)..(Len(sv[last.c].data) - 1) :
            SVExists(sv[last.c], i)

\* C6 as claimed: with both guards open, jailed2[idx] with an Index made by
\* jailed1 panics.
C6_Original ==
    (last.op = "index" /\ last.tok.c # last.c
        /\ guard[last.c] # 0 /\ guard[last.tok.c] = last.tok.g)
        => last.res = Panic

\* C6 as amended: with both guards open, jailed2[idx] with an Index made by
\* jailed1 panics exactly when slot idx of the second StableVec is not
\* occupied, and returns the second StableVec's element in that slot when it
\* is.
C6_ForeignLookup ==
    (last.op = "index" /\ last.tok.c # last.c
        /\ guard[last.c] # 0 /\ guard[last.tok.c] = last.tok.g)
        => LET d == sv[last.c].data
               i == last.tok.idx
           IN  IF i < Len(d) /\ d[i + 1] # Empty
                   THEN last.res = d[i + 1] ELSE last.res = Panic

\* C6 witness: with both guards open, a lookup on one with the other's Index
\* returned an element that is not the one the Index was made for.
C6_Witness ==
    /\ last.op = "index" /\ last.tok.c # last.c
    /\ guard[last.c] # 0 /\ guard[last.tok.c] = last.tok.g
    /\ last.res \in Values /\ last.res # ValOf(last.tok)

\* C7: remove(idx) with an Index that a remove through the open guard was
\* asked with before, when it named a slot of the StableVec (or, for an Index
\* the guard made, whose slot a pop emptied), returns None and changes no
\* slot, no value and no count of any StableVec, whatever guard calls were
\* made in between.
C7_SecondRemoveIsNoop ==
    [][(last'.op = "remove"
            /\ \/ \E r \in gone[last'.c] : r.tok = last'.tok /\ r.by = "remove"
               \/ Own(last'.c, last'.tok) /\ last'.tok.idx \in GoneSlots(last'.c))
        => (last'.res = None /\ sv' = sv /\ net' = net)]_vars

\* C7 witness: the second remove(idx) of an Index of the open guard (the first
\* removal asked for its slot was a remove, with that Index) returned None,
\* other calls having been made in between.
C7_Witness ==
    /\ last.op = "remove" /\ Own(last.c, last.tok) /\ last.res = None
    /\ \A r \in gone[last.c] : r.tok.idx = last.tok.idx =>
            (r.tok = last.tok /\ r.by = "remove")
    /\ last.tok.idx \in GoneSlots(last.c)
    /\ Len(sv[last.c].data) > last.tok.idx + 1
    /\ sv[last.c].used > 0

\* C8 as claimed: under an open guard, num_elements() is the number of pushes
\* minus the number of successful removals made through the guard.
C8_Original ==
    \A c \in Vecs : guard[c] # 0 => JNumElements(sv[c]) = net[c]

\* C8 as amended: under an open guard, num_elements() is the count the
\* StableVec had when the guard was made, plus the pushes, minus the
\* successful removals made through the guard.
C8_CountFromBase ==
    /\ \A c \in Vecs : guard[c] # 0 => JNumElements(sv[c]) = base[c] + net[c]
    /\ last.op = "num_elements" => last.res = base[last.c] + net[last.c]

\* C8 witness: num_elements() was called under a guard made over a StableVec
\* that held an element, after a push and a successful removal.
C8_Witness ==
    /\ last.op = "num_elements" /\ base[last.c] > 0
    /\ gone[last.c] # {} /\ ToksOf(last.c) # {}
    /\ last.res = base[last.c] + net[last.c]

\* C9: in the doc test's round on an empty sv1, jailed[idx1] is 1 and
\* jailed[idx2] is 2 (sum 3), after the round sv1 drains to [2], and after a
\* second round on the same sv1 to [2, 2].
C9_DocTest ==
    /\ pos \in {4, RoundLen + 4} => last.res = 1
    /\ pos \in {5, RoundLen + 5} => last.res = 2
    /\ pos = RoundLen => SVIntoVec(sv[1]) = <<2>>
    /\ pos = 2 * RoundLen => SVIntoVec(sv[1]) = <<2, 2>>

\* C9 witness: both rounds of the doc test were run.
C9_Witness == pos = 2 * RoundLen /\ last.op = "make_compact"

\* C10: pop() through a guard over a StableVec with no occupied slot returns
\* None and changes nothing; otherwise it returns the value of the trailing
\* occupied slot, empties that slot, takes 1 off num_elements, and leaves all
\* other slots as they were.
C10_Pop ==
    [][last'.op = "pop" =>
        LET c == last'.c
            d == sv[c].data
            occ == {i \in 1..Len(d) : d[i] # Empty}
        IN  /\ \A o \in Vecs \ {c} : sv'[o] = sv[o]
            /\ IF occ = {}
                 THEN last'.res = None /\ sv'[c] = sv[c]
                 ELSE \E i \in occ :
                        /\ \A j \in occ : j <= i
                        /\ last'.res = d[i]
                        /\ sv'[c].data = [d EXCEPT ![i] = Empty]
                        /\ JNumElements(sv'[c]) = JNumElements(sv[c]) - 1]_vars

\* C10 witness: a pop returned the trailing element of a StableVec that has
\* a tombstone behind it and another element left.
C10_Witness ==
    /\ last.op = "pop" /\ last.res \in Values
    /\ sv[last.c].used > 0
    /\ Len(sv[last.c].data) = 3
    /\ sv[last.c].data[3] = Empty /\ sv[last.c].data[2] = Empty

\* the values in the occupied slots of the other StableVecs stay as they are
OthersSame(c) == \A o \in Vecs \ {c} : sv'[o] = sv[o]

\* C11: remove(idx) through the open guard, with an Index that guard made and
\* whose slot is occupied, returns the value pushed for the Index (or last
\* written to its slot through index_mut), empties that slot and no other,
\* and takes exactly 1 off num_elements.
C11_RemoveOccupied ==
    [][(last'.op = "remove" /\ Own(last'.c, last'.tok)
            /\ SVExists(sv[last'.c], last'.tok.idx))
        => LET c == last'.c
               i == last'.tok.idx
           IN  /\ last'.res = ValOf(last'.tok)
               /\ last'.res \in Values
               /\ sv'[c].data = [sv[c].data EXCEPT ![i + 1] = Empty]
               /\ JNumElements(sv'[c]) = JNumElements(sv[c]) - 1
               /\ OthersSame(c)]_vars

\* C11 witness: a remove with an Index of the open guard returned the value
\* the Index stands for, and left the slot after it occupied.
C11_Witness ==
    /\ last.op = "remove" /\ Own(last.c, last.tok)
    /\ last.res \in Values /\ last.res = ValOf(last.tok)
    /\ ~SVExists(sv[last.c], last.tok.idx)
    /\ SVExists(sv[last.c], last.tok.idx + 1)

\* C12: push(v) through the open guard does not panic, appends one occupied
\* slot holding v, returns an Index of this guard naming that slot, adds
\* exactly 1 to num_elements, and leaves every slot that existed as it was.
C12_Push ==
    [][last'.op = "push"
        => LET c == last'.c
               d == sv[c].data
               t == last'.tok
           IN  /\ last'.res # Panic
               /\ Own(c, t) /\ t.idx = Len(d)
               /\ Len(sv'[c].data) = Len(d) + 1
               /\ \A i \in 1..Len(d) : sv'[c].data[i] = d[i]
               /\ sv'[c].data[t.idx + 1] = last'.arg
               /\ last'.arg \in Values
               /\ JNumElements(sv'[c]) = JNumElements(sv[c]) + 1
               /\ OthersSame(c)]_vars

\* C12 witness: a push was made behind a tombstone and an occupied slot, and
\* its Index names the new, third slot.
C12_Witness ==
    /\ last.op = "push" /\ last.tok.idx = 2
    /\ sv[last.c].data[1] = Empty /\ sv[last.c].data[2] # Empty
    /\ sv[last.c].data[3] = last.arg

\* the number of slots of d holding v
Count(d, v) == Cardinality({i \in 1..Len(d) : d[i] = v})

\* e lists the occupied slots of d, every one of them, in slot order
OrderKept(d, e) ==
    \E f \in [1..Len(e) -> 1..Len(d)] :
        /\ \A i \in 1..Len(e) : e[i] = d[f[i]] /\ e[i] # Empty
        /\ \A i, j \in 1..Len(e) : i < j => f[i] < f[j]
        /\ \A k \in 1..Len(d) : d[k] # Empty => \E i \in 1..Len(e) : f[i] = k

\* C13: make_compact and reordering_make_compact, called when no guard
\* borrows the StableVec, leave no tombstone (as many slots as num_elements)
\* and the multiset of values that was occupied before the call; make_compact
\* keeps the survivors in their slot order.
C13_Compaction ==
    [][last'.op \in CompactOps
        => LET c == last'.c
               d == sv[c].data
               e == sv'[c].data
           IN  /\ ~Borrowed(c)
               /\ Len(e) = JNumElements(sv'[c])
               /\ \A i \in 1..Len(e) : e[i] # Empty
               /\ \A v \in Values : Count(e, v) = Count(d, v)
               /\ JNumElements(sv'[c]) = JNumElements(sv[c])
               /\ last'.op = "make_compact" => OrderKept(d, e)
               /\ OthersSame(c)]_vars

\* C13 witness: a compaction of a StableVec that had been through a scope
\* left two different survivors, the larger value in the first slot.
C13_Witness ==
    /\ last.op \in CompactOps /\ gen >= 1
    /\ Len(sv[last.c].data) = 2
    /\ sv[last.c].data[1] > sv[last.c].data[2]
    /\ sv[last.c].data[2] # Empty

\* C14: while a guard is open, is_compact() answers true exactly when the
\* StableVec has no tombstone (as many slots as num_elements), and
\* is_compact(), num_elements() and index change nothing of any StableVec.
C14_Queries ==
    [][last'.op \in {"is_compact", "num_elements", "index"}
        => LET s == sv[last'.c]
           IN  /\ guard[last'.c] # 0
               /\ sv' = sv
               /\ last'.op = "is_compact" =>
                    /\ last'.res \in {0, 1}
                    /\ last'.res = 1 <=> \A i \in 1..Len(s.data) : s.data[i] # Empty
                    /\ last'.res = 1 <=> Len(s.data) = s.used]_vars

\* C14 witness: is_compact() answered false on a StableVec that holds an
\* element next to a tombstone.
C14_Witness ==
    /\ last.op = "is_compact" /\ last.res = 0
    /\ \E i, j \in 1..Len(sv[last.c].data) :
          sv[last.c].data[i] = Empty /\ sv[last.c].data[j] # Empty

\* C15: in every reachable state, whatever jail, push, remove, pop, close,
\* make_compact and reordering_make_compact calls led to it (a remove repeated
\* with the same Index among them), num_elements is a count no larger than
\* the number of slots.
C15_CountWithinSlots ==
    \A c \in vecs :
        /\ JNumElements(sv[c]) >= 0
        /\ JNumElements(sv[c]) <= Len(sv[c].data)

\* C15 witness: a remove repeated with an Index whose slot a remove had emptied
\* returned None on a StableVec of two tombstones, num_elements being 0.
C15_Witness ==
    /\ last.op = "remove" /\ last.res = None
    /\ [tok |-> last.tok, by |-> "remove"] \in gone[last.c]
    /\ Len(sv[last.c].data) = 2
    /\ \A i \in 1..2 : sv[last.c].data[i] = Empty
    /\ JNumElements(sv[last.c]) = 0

\* C16: jail() and the end of the JailedStableVec's scope leave the slots,
\* their values and num_elements of every StableVec as they were.
C16_JailAndCloseKeep ==
    [][last'.op \in {"jail", "close"} => sv' = sv]_vars

\* C16 witness: the second jail() was made over a StableVec that the first
\* scope left with a tombstone next to an element.
C16_Witness ==
    /\ last.op = "jail" /\ gen = 2
    /\ \E i, j \in 1..Len(sv[last.c].data) :
          sv[last.c].data[i] = Empty /\ sv[last.c].data[j] # Empty

\* the calls a JailedStableVec forwards to StableVec calls of C17
DelegatedOps == {"push", "pop", "remove", "index", "num_elements", "is_compact"}

\* C17: every push, pop, remove, index, num_elements and is_compact made
\* through a guard returns what the StableVec's own push, pop, remove(slot),
\* index(slot), num_elements and is_compact return when called with the
\* Index's raw slot number, and leaves the StableVec in the state that call
\* leaves it in; so a sequence of guard calls and the same sequence of direct
\* calls, started from one state, give the same results and final state.
C17_Delegation ==
    [][last'.op \in DelegatedOps
        => LET c == last'.c
               s == sv[c]
               i == last'.tok.idx
               op == last'.op
           IN  /\ OthersSame(c)
               /\ op = "push" =>
                    /\ sv'[c] = SVPush(s, last'.arg).sv
                    /\ i = SVPush(s, last'.arg).idx
               /\ op = "pop" =>
                    /\ sv'[c] = SVPop(s).sv
                    /\ last'.res = SVPop(s).res
               /\ op = "remove" =>
                    \E o \in Unallocated :
                        /\ sv'[c] = SVRemove(s, i, o).sv
                        /\ last'.res = SVRemove(s, i, o).res
               /\ op = "index" =>
                    /\ sv'[c] = s
                    /\ last'.res = SVIndex(s, i)
               /\ op = "num_elements" =>
                    /\ sv'[c] = s
                    /\ last'.res = SVNumElements(s)
               /\ op = "is_compact" =>
                    /\ sv'[c] = s
                    /\ last'.res = (IF SVIsCompact(s) THEN 1 ELSE 0)]_vars

\* C17 witness: after a removal emptied slot 0, index(idx) with the Index of
\* raw slot number 1 returned the value that slot holds.
C17_Witness ==
    /\ last.op = "index" /\ last.tok.idx = 1
    /\ last.res \in Values /\ last.res = sv[last.c].data[2]
    /\ sv[last.c].data[1] = Empty

\* C18: a write through index_mut(idx) replaces the element of the slot the
\* Index names and nothing else: every held Index of another slot resolves to
\* the value it resolved to before, and num_elements and is_compact answer as
\* before; an index_mut that panics changes nothing.
C18_IndexMutFrame ==
    [][last'.op = "index_mut"
        => LET c == last'.c
               d == sv[c].data
               i == last'.tok.idx
           IN  IF last'.res = Panic THEN sv' = sv
               ELSE /\ last'.res \in Values /\ last'.res = d[i + 1]
                    /\ sv'[c].data = [d EXCEPT ![i + 1] = last'.arg]
                    /\ \A h \in held :
                          (h.tok.c = c /\ h.tok.idx # i) =>
                              JIndex(sv'[c], h.tok) = JIndex(sv[c], h.tok)
                    /\ JNumElements(sv'[c]) = JNumElements(sv[c])
                    /\ JIsCompact(sv'[c]) <=> JIsCompact(sv[c])
                    /\ OthersSame(c)]_vars

\* C18 witness: index_mut replaced an element by a different value while an
\* Index of the open guard for another, occupied slot was held.
C18_Witness ==
    /\ last.op = "index_mut" /\ last.res \in Values /\ last.res # last.arg
    /\ sv[last.c].data[last.tok.idx + 1] = last.arg
    /\ \E h \in held :
          /\ Own(last.c, h.tok) /\ h.tok.idx # last.tok.idx
          /\ JIndex(sv[last.c], h.tok) = h.val

====
